---- MODULE Spec2Model ----
(***************************************************************************)
(* Model of the Chrome automation extension's relay core:                  *)
(*   - WebSocketManager   (background/websocket.js)                        *)
(*   - BackgroundManager  (background.js)                                  *)
(*   - TabManager         (background/tab-manager.js)                      *)
(*   - AutomationHandler  (content/handler.js, first definition) and the   *)
(*     content bootstrap  (content/storage-commands.js, lines 297-454)     *)
(*   - NetworkMonitor     (background/network-monitor.js)                  *)
(*   - BackgroundManager of background/main.js (unnamed/part_004): the     *)
(*     network monitor's toggles and the periodic status check             *)
(*   - parseCommand and formatResult of AutomationHandler as functions     *)
(***************************************************************************)
EXTENDS Integers, Sequences, FiniteSets, TLC

(***************************************************************************)
(* Bounds of the model.                                                    *)
(***************************************************************************)
MaxSockets == 2     \* WebSocket objects alive at the same time
MaxTx == 2          \* results / network events transmitted per socket

MaxCmds == 2        \* automation commands the controller sends
MaxHandlers == 2    \* AutomationHandler instances in one page context
MaxSegments == 3    \* `|`-separated segments after the command name
MaxItems == 2       \* elements of an array / properties of an object
MaxTabs == 2        \* tabs open in the browser
MaxTabEvents == 2   \* tab events the browser has sent and the worker not yet handled
MaxIds == 2         \* command_id values the controller uses
MaxClock == 2       \* milliseconds Date.now() advances
MaxElements == 2    \* elements of the page an XPath selector can name
MaxCookies == 2     \* cookies one source lists

Sockets == 1..MaxSockets
Cmds == 1..MaxCmds
Handlers == 1..MaxHandlers

VARIABLES
    stored,          \* chrome.storage.local 'isEnabled': "unset", "true" or "false"
    isEnabled,       \* BackgroundManager.isEnabled
    initialized,     \* BackgroundManager.initialize() has run
    togglePending,   \* handleToggleLogging suspended at `await storage.set`
    ws,              \* WebSocketManager.ws (0 = null, else a socket)
    isConnecting,    \* WebSocketManager.isConnecting
    reconnectTimer,  \* WebSocketManager.reconnectTimer is non-null
    timers,          \* reconnect setTimeout callbacks still pending
    connectionState, \* WebSocketManager.connectionState
    lastDelivered,   \* most recent state handed to the state listener
    prevDelivered,   \* the state handed to the listener before that one
    sock,            \* per WebSocket object: its readyState
    wire,            \* messages transmitted on the socket this.ws refers to
    closePending,    \* socket whose close event follows its error event
    lastSend,        \* outcome of the most recent sendMessage call
    lastOp,          \* the handler that ran last
    closed,          \* close()/reset() was called and connect() not since
    quiet,           \* no further popup / lifecycle calls will be made
    stable,          \* the transport is available and stays available
    activeTabId,     \* TabManager.activeTabId (0 = null)
    docState,        \* the tab's document: loading, complete, internal (chrome://)
    handlers,        \* AutomationHandler instances listening in the page
    pendingInit,     \* content bootstraps waiting for the load event
    navPending,      \* navigate's setTimeout(location.href = url) is pending
    cmd,             \* per command: its script and how far the relay got
    inst,            \* per command and handler: the handleAction call
    activeRequests,  \* per handler: keys of AutomationHandler.activeRequests
    outbox,          \* chrome.runtime messages from the page, in flight
    handed,          \* per command: results transmitted to the controller
    raw,             \* parseCommand's argument, as the parts split('|') yields
    parsed,          \* what parseCommand returned or threw for raw
    result,          \* the value a command function returned
    formatted,       \* formatResult(value)
    reformatted,     \* formatResult applied to the formatted value
    restarted,       \* the service worker was stopped and started again
    lastToggle,      \* the toggle whose storage.set completed last: on, off, none
    nmEnabled,       \* NetworkMonitor.isEnabled
    nmListeners,     \* listeners registered with chrome.webRequest, per phase
    statusCheck,     \* BackgroundManager.statusCheckInterval is running
    browserActive,   \* the tab that is active in the browser
    tabEvents,       \* onActivated / onUpdated events on their way to the worker
    query,           \* TabManager.initialize's chrome.tabs.query: issued, its answer, applied
    lastEvent,       \* tab of the activation / load-complete event delivered last
    routed,          \* executeCommand in the tab view: the tab injected, the tab relayed to
    now,             \* Date.now() in the page
    flight,          \* handleAction calls of one handler: position, requestId, load listener, timer
    requestMap,      \* AutomationHandler.activeRequests: requestId -> the call that set the entry
    pageLoading,     \* the document of the handler has not fired its load event
    lastPageEvent,   \* unload / drop when the step just taken was that event
    clicks,          \* click_element calls: position, element found, result emitted, click made
    cookieIn,        \* getCookiesComplete: the response and document.cookie it works on
    cookieOut        \* getCookiesComplete: the list it resolves with

connVars == <<ws, isConnecting, reconnectTimer, timers, connectionState,
              lastDelivered, prevDelivered, sock, wire, closePending, lastSend>>
bgVars == <<stored, isEnabled, initialized, togglePending>>
\* state of the components that the connection and relay handlers never touch
parserVars == <<raw, parsed>>
formatVars == <<result, formatted, reformatted>>
lifeVars == <<restarted, lastToggle>>
mainVars == <<nmEnabled, nmListeners, statusCheck>>
moreVars == <<browserActive, tabEvents, query, lastEvent, routed,
              now, flight, requestMap, pageLoading, lastPageEvent,
              clicks, cookieIn, cookieOut>>
auxVars == <<parserVars, formatVars, lifeVars, mainVars, moreVars>>
envVars == <<quiet, stable, auxVars>>
mgrVars == <<ws, isConnecting, reconnectTimer, timers, connectionState,
             lastDelivered, prevDelivered, sock, closePending>>
pageVars == <<docState, handlers, pendingInit, navPending>>
relayVars == <<activeTabId, docState, handlers, pendingInit, navPending, cmd, inst,
               activeRequests, outbox, handed>>
\* everything but auxVars
coreVars == <<bgVars, connVars, lastOp, closed, quiet, stable, relayVars>>
vars == <<bgVars, connVars, lastOp, closed, envVars, relayVars>>

(***************************************************************************)
(* Messages handed to WebSocketManager.sendMessage.                        *)
(***************************************************************************)
Handshake == [type |-> "extension_connected", id |-> 0, error |-> "none"]
NetworkRequest == [type |-> "network_request", id |-> 0, error |-> "none"]
NoMessage == [type |-> "none", id |-> 0, error |-> "none"]
\* no sendMessage call was made by the last handler
NoSend == [msg |-> NoMessage, ret |-> FALSE]

ConnectionStates == {"disconnected", "connecting", "connected"}

(***************************************************************************)
(* WebSocket objects.  A socket whose close event has been delivered is    *)
(* garbage: its slot is reused by the next `new WebSocket`.                *)
(***************************************************************************)
FreeSockets == {s \in Sockets : sock[s] = "free"}
NewSocket == CHOOSE s \in FreeSockets : \A t \in FreeSockets : s <= t

\* updateConnectionState(state): store it and notify the listener
UpdateConnectionState(state) ==
    /\ connectionState' = state
    /\ prevDelivered' = lastDelivered
    /\ lastDelivered' = state

\* connect() with the isConnecting guard removed
ConnectUnguarded ==
    /\ FreeSockets # {}
    /\ isConnecting' = TRUE
    /\ UpdateConnectionState("connecting")
    /\ ws' = NewSocket
    /\ sock' = [sock EXCEPT ![NewSocket] = "connecting"]
    /\ wire' = <<>>

\* connect(): the constant URL is well formed, so `new WebSocket` does not
\* throw and the catch branch is never taken
Connect ==
    IF isConnecting
    THEN UNCHANGED <<isConnecting, connectionState, lastDelivered, prevDelivered, ws, sock, wire>>
    ELSE /\ FreeSockets # {}
         /\ isConnecting' = TRUE
         /\ UpdateConnectionState("connecting")
         /\ ws' = NewSocket
         /\ sock' = [sock EXCEPT ![NewSocket] = "connecting"]
         /\ wire' = <<>>

\* sendMessage that reports success although nothing was transmitted
SendMessageAlwaysTrue(m, readyState, fail) ==
    IF ws # 0 /\ readyState[ws] = "open" /\ ~fail
    THEN /\ wire' = Append(wire, m)
         /\ lastSend' = [msg |-> m, ret |-> TRUE]
    ELSE /\ wire' = wire
         /\ lastSend' = [msg |-> m, ret |-> TRUE]

\* sendMessage(message): readyState is the sockets' state at the call, fail
\* says that JSON.stringify / ws.send raised
SendMessage(m, readyState, fail) ==
    IF ws # 0 /\ readyState[ws] = "open" /\ ~fail
    THEN /\ wire' = Append(wire, m)
         /\ lastSend' = [msg |-> m, ret |-> TRUE]
    ELSE /\ wire' = wire
         /\ lastSend' = [msg |-> m, ret |-> FALSE]

\* handleConnectionError() scheduling a timer on every call
HandleConnectionErrorAlwaysSchedules ==
    /\ isConnecting' = FALSE
    /\ ws' = 0
    /\ wire' = <<>>
    /\ UpdateConnectionState("disconnected")
    /\ reconnectTimer' = TRUE
    /\ timers' = timers + 1

\* handleConnectionError() that schedules no reconnect
HandleConnectionErrorNoRetry ==
    /\ isConnecting' = FALSE
    /\ ws' = 0
    /\ wire' = <<>>
    /\ UpdateConnectionState("disconnected")
    /\ UNCHANGED <<reconnectTimer, timers>>

\* handleConnectionError()
HandleConnectionError ==
    /\ isConnecting' = FALSE
    /\ ws' = 0
    /\ wire' = <<>>
    /\ UpdateConnectionState("disconnected")
    /\ IF ~reconnectTimer
       THEN reconnectTimer' = TRUE /\ timers' = timers + 1
       ELSE UNCHANGED <<reconnectTimer, timers>>

\* results / network events transmitted on the current socket
TxCount == Cardinality({i \in 1..Len(wire) : wire[i] # Handshake})

\* room on the current socket for one more result / network event
CanTransmit == TxCount < MaxTx

(***************************************************************************)
(* BackgroundManager                                                       *)
(***************************************************************************)
\* initialize() that connects whatever the restored flag says
InitializeAlwaysConnects ==
    /\ ~initialized
    /\ closePending = 0
    /\ initialized' = TRUE
    /\ isEnabled' = (stored = "true")
    /\ Connect
    /\ closed' = IF stored = "true" THEN FALSE ELSE closed
    /\ lastOp' = "initialize"
    /\ lastSend' = NoSend
    /\ UNCHANGED <<stored, togglePending, reconnectTimer, timers,
                   closePending, envVars, relayVars>>

\* initialize(): restore the flag, connect when enabled
Initialize ==
    /\ ~initialized
    /\ closePending = 0
    /\ initialized' = TRUE
    /\ isEnabled' = (stored = "true")
    /\ IF stored = "true"
       THEN Connect
       ELSE UNCHANGED <<isConnecting, connectionState, lastDelivered, prevDelivered, ws, sock, wire>>
    /\ closed' = IF stored = "true" THEN FALSE ELSE closed
    /\ lastOp' = "initialize"
    /\ lastSend' = NoSend
    /\ UNCHANGED <<stored, togglePending, reconnectTimer, timers,
                   closePending, envVars, relayVars>>

\* handleToggleLogging(message), up to `await chrome.storage.local.set`
ToggleBegin(value) ==
    /\ initialized
    /\ ~quiet
    /\ closePending = 0
    /\ togglePending = "none"
    /\ isEnabled' = value
    /\ togglePending' = IF value THEN "on" ELSE "off"
    /\ lastOp' = "toggleLogging"
    /\ lastSend' = NoSend
    /\ UNCHANGED <<stored, initialized, ws, isConnecting, reconnectTimer, timers,
                   connectionState, lastDelivered, prevDelivered, sock, wire,
                   closePending, closed, envVars, relayVars>>

\* handleToggleLogging(message), after the await: connect() when enabled,
\* else wsManager.close(), which WebSocketManager does not define: the call
\* raises a TypeError that the handler catches, and the manager is untouched
ToggleEnd ==
    /\ togglePending # "none"
    /\ closePending = 0
    /\ stored' = (IF togglePending = "on" THEN "true" ELSE "false")
    /\ togglePending' = "none"
    /\ lastToggle' = togglePending
    /\ IF isEnabled
       THEN Connect /\ closed' = FALSE /\ lastOp' = "toggleConnect"
       ELSE /\ UNCHANGED <<isConnecting, connectionState, lastDelivered, prevDelivered, ws, sock, wire>>
            /\ closed' = TRUE
            /\ lastOp' = "toggleClose"
    /\ lastSend' = NoSend
    /\ UNCHANGED <<isEnabled, initialized, reconnectTimer, timers,
                   closePending, quiet, stable, parserVars, formatVars, restarted,
                   mainVars, moreVars, relayVars>>

\* reset(): cancel the timer, close and drop the socket
Reset ==
    /\ IF reconnectTimer
       THEN reconnectTimer' = FALSE /\ timers' = timers - 1
       ELSE UNCHANGED <<reconnectTimer, timers>>
    /\ IF ws # 0
       THEN /\ sock' = [sock EXCEPT ![ws] = IF @ \in {"connecting", "open"} THEN "closing" ELSE @]
            /\ ws' = 0
            /\ wire' = <<>>
       ELSE UNCHANGED <<sock, ws, wire>>

\* cleanup(), the onSuspend listener
Cleanup ==
    /\ ~quiet
    /\ closePending = 0
    /\ Reset
    /\ closed' = TRUE
    /\ lastOp' = "reset"
    /\ lastSend' = NoSend
    /\ UNCHANGED <<bgVars, isConnecting, connectionState, lastDelivered, prevDelivered,
                   closePending, envVars, relayVars>>

\* handleMessage(message), default branch, for a SCRIPT_RESULT / SCRIPT_ERROR
HandleMessage(m, fail) ==
    /\ initialized
    /\ closePending = 0
    /\ CanTransmit
    /\ IF isEnabled
       THEN SendMessage(m, sock, fail) /\ lastOp' = "sendMessage"
       ELSE UNCHANGED wire /\ lastSend' = NoSend /\ lastOp' = "disabled"
    /\ UNCHANGED <<bgVars, ws, isConnecting, reconnectTimer, timers, connectionState,
                   lastDelivered, prevDelivered, sock, closePending, closed, envVars>>

\* the onInstalled listener on a fresh install (nothing stored yet):
\* storage.set({isEnabled: false})
OnInstalled ==
    /\ stored = "unset"
    /\ ~restarted
    /\ closePending = 0
    /\ stored' = "false"
    /\ UNCHANGED <<isEnabled, initialized, togglePending, connVars, lastOp, closed,
                   envVars, relayVars>>

\* the browser stops the service worker and starts it again: every object
\* of the old worker is gone, its sockets and timers included, and the
\* module runs `new BackgroundManager()` afresh; only chrome.storage is
\* kept.  A storage.set that a suspended handleToggleLogging was awaiting
\* has been written (persisted) or not.
Restart(persisted) ==
    /\ ~quiet
    /\ closePending = 0
    /\ stored' = IF togglePending # "none" /\ persisted
                 THEN (IF togglePending = "on" THEN "true" ELSE "false")
                 ELSE stored
    /\ isEnabled' = FALSE
    /\ initialized' = FALSE
    /\ togglePending' = "none"
    /\ ws' = 0
    /\ isConnecting' = FALSE
    /\ reconnectTimer' = FALSE
    /\ timers' = 0
    /\ connectionState' = "disconnected"
    /\ lastDelivered' = "none"
    /\ prevDelivered' = "none"
    /\ sock' = [s \in Sockets |-> "free"]
    /\ wire' = <<>>
    /\ closePending' = 0
    /\ lastSend' = NoSend
    /\ lastOp' = "constructor"
    /\ closed' = FALSE
    /\ activeTabId' = 0
    /\ restarted' = TRUE
    /\ lastToggle' = IF togglePending # "none" /\ persisted THEN togglePending ELSE lastToggle
    /\ nmEnabled' = FALSE
    /\ nmListeners' = 0
    /\ statusCheck' = FALSE
    /\ UNCHANGED <<quiet, stable, parserVars, formatVars, moreVars, pageVars, cmd, inst,
                   activeRequests, outbox, handed>>

(***************************************************************************)
(* WebSocket events                                                        *)
(***************************************************************************)
\* ws.onopen
OnOpen(s) ==
    /\ closePending = 0
    /\ sock[s] = "connecting"
    /\ sock' = [sock EXCEPT ![s] = "open"]
    /\ isConnecting' = FALSE
    /\ UpdateConnectionState("connected")
    /\ IF reconnectTimer
       THEN reconnectTimer' = FALSE /\ timers' = timers - 1
       ELSE UNCHANGED <<reconnectTimer, timers>>
    /\ SendMessage(Handshake, sock', FALSE)
    /\ lastOp' = "onopen"
    /\ UNCHANGED <<bgVars, ws, closePending, closed, envVars, relayVars>>

\* ws.onerror: the connection failed; the close event follows in the same task
OnError(s) ==
    /\ closePending = 0
    /\ \/ sock[s] \in {"connecting", "open"} /\ ~stable
       \/ sock[s] = "closing"
    /\ sock' = [sock EXCEPT ![s] = "closed"]
    /\ closePending' = s
    /\ HandleConnectionError
    /\ lastOp' = "onerror"
    /\ lastSend' = NoSend
    /\ UNCHANGED <<bgVars, closed, envVars, relayVars>>

\* ws.onclose: after an error event, or a clean close
OnClose(s) ==
    /\ \/ closePending = s
       \/ closePending = 0 /\ sock[s] = "open" /\ ~stable
       \/ closePending = 0 /\ sock[s] = "closing"
    /\ sock' = [sock EXCEPT ![s] = "free"]
    /\ closePending' = 0
    /\ HandleConnectionError
    /\ lastOp' = "onclose"
    /\ lastSend' = NoSend
    /\ UNCHANGED <<bgVars, closed, envVars, relayVars>>

\* the reconnect setTimeout callback of handleConnectionError
ReconnectTimerFires ==
    /\ closePending = 0
    /\ timers > 0
    /\ timers' = timers - 1
    /\ reconnectTimer' = FALSE
    /\ Connect
    /\ lastOp' = "reconnect"
    /\ lastSend' = NoSend
    /\ UNCHANGED <<bgVars, closePending, closed, envVars, relayVars>>

(***************************************************************************)
(* NetworkMonitor                                                          *)
(***************************************************************************)
\* handleRequest(details) and its siblings: forward one network_request
NetworkEvent(fail) ==
    /\ closePending = 0
    /\ CanTransmit
    /\ SendMessage(NetworkRequest, sock, fail)
    /\ lastOp' = "sendMessage"
    /\ UNCHANGED <<bgVars, ws, isConnecting, reconnectTimer, timers, connectionState,
                   lastDelivered, prevDelivered, sock, closePending, closed, envVars,
                   relayVars>>

\* NetworkMonitor.start(): the five listeners are bound, stored and added
\* together, so one count stands for every phase
MonitorStart ==
    IF nmEnabled
    THEN UNCHANGED <<nmEnabled, nmListeners>>
    ELSE /\ nmListeners' = nmListeners + 1
         /\ nmEnabled' = TRUE

\* stop() handing removeListener the unbound methods, which were never
\* registered
MonitorStopUnbound ==
    IF ~nmEnabled
    THEN UNCHANGED <<nmEnabled, nmListeners>>
    ELSE /\ nmListeners' = nmListeners
         /\ nmEnabled' = FALSE

\* NetworkMonitor.stop(): removes the stored bound listeners
MonitorStop ==
    IF ~nmEnabled
    THEN UNCHANGED <<nmEnabled, nmListeners>>
    ELSE /\ nmListeners' = nmListeners - 1
         /\ nmEnabled' = FALSE

\* chrome.webRequest dispatches a request event to the registered listener
WebRequest(fail) ==
    /\ initialized
    /\ nmListeners > 0
    /\ NetworkEvent(fail)

(***************************************************************************)
(* BackgroundManager of background/main.js, the manifest's service worker  *)
(***************************************************************************)
\* initialize(): connect at once, start the monitor and the status check
MainInitialize ==
    /\ ~initialized
    /\ closePending = 0
    /\ initialized' = TRUE
    /\ Connect
    /\ MonitorStart
    /\ statusCheck' = TRUE
    /\ closed' = FALSE
    /\ lastOp' = "initialize"
    /\ lastSend' = NoSend
    /\ UNCHANGED <<stored, isEnabled, togglePending, reconnectTimer, timers, closePending,
                   quiet, stable, parserVars, formatVars, lifeVars, moreVars,
                   relayVars>>

\* handleMessage, case 'toggleNetworkMonitor'
ToggleNetworkMonitor(enable) ==
    /\ initialized
    /\ ~quiet
    /\ closePending = 0
    /\ IF enable THEN MonitorStart ELSE MonitorStop
    /\ lastOp' = IF enable
                 THEN (IF nmEnabled THEN "monitorStartAgain" ELSE "monitorStart")
                 ELSE (IF nmEnabled THEN "monitorStop" ELSE "monitorStopAgain")
    /\ lastSend' = NoSend
    /\ UNCHANGED <<bgVars, mgrVars, wire, closed, quiet, stable, parserVars, formatVars,
                   lifeVars, statusCheck, moreVars, relayVars>>

\* the setInterval callback of startStatusCheck
StatusCheckFires ==
    /\ statusCheck
    /\ closePending = 0
    /\ IF connectionState = "disconnected"
       THEN Connect /\ closed' = FALSE /\ lastOp' = "statusCheckConnect"
       ELSE /\ UNCHANGED <<isConnecting, connectionState, lastDelivered, prevDelivered, ws,
                           sock, wire, closed>>
            /\ lastOp' = "statusCheck"
    /\ lastSend' = NoSend
    /\ UNCHANGED <<bgVars, reconnectTimer, timers, closePending, envVars, relayVars>>

\* cleanup(), the onSuspend listener: clearInterval, then wsManager.close()
\* raises a TypeError (WebSocketManager has no close) and
\* networkMonitor.stop() is not reached
MainCleanup ==
    /\ initialized
    /\ ~quiet
    /\ closePending = 0
    /\ statusCheck
    /\ statusCheck' = FALSE
    /\ lastOp' = "cleanup"
    /\ lastSend' = NoSend
    /\ UNCHANGED <<bgVars, mgrVars, wire, closed, quiet, stable, parserVars, formatVars,
                   lifeVars, nmEnabled, nmListeners, moreVars, relayVars>>

(***************************************************************************)
(* TabManager, the content bootstrap and AutomationHandler                 *)
(***************************************************************************)
\* error.message of the failures the relay reports
NoActiveTab == "No active tab found"
NoReceiver == "Could not establish connection. Receiving end does not exist."
UnknownCommand == "Unknown command"
CommandTimeout == "Command execution timeout"
NavigationTimeout == "Navigation timeout"
UrlRequired == "URL is required for navigation"
ExecutorFailure == "executor failure"

ScriptError(c, error) == [type |-> "SCRIPT_ERROR", id |-> c, error |-> error]

\* a chrome.runtime message of handler h about command c; navigate's
\* acknowledgement carries no command_id (id 0)
Emit(type, id, error, c, h) ==
    [type |-> type, id |-> id, error |-> error, from |-> <<c, h>>]

\* handleAction calls that hold an entry of activeRequests
Pending == {"racing", "navwait"}

\* handleAction calls that have emitted their SCRIPT_RESULT / SCRIPT_ERROR
Produced == {"rejected", "done", "timedout", "late", "navdone", "navtimedout"}

\* results for command c transmitted by the sendMessage call of this step
Transmitted(c) ==
    [handed EXCEPT ![c] = @ + (IF lastSend'.ret THEN 1 ELSE 0)]

\* TabManager.initialize's tabs.query callback / the tabs.onActivated listener
TabActivated ==
    /\ closePending = 0
    /\ activeTabId = 0
    /\ activeTabId' = 1
    /\ lastOp' = "relay"
    /\ lastSend' = NoSend
    /\ UNCHANGED <<bgVars, mgrVars, wire, closed, envVars, pageVars, cmd, inst,
                   activeRequests, outbox, handed>>

\* handleWebSocketMessage that executes whatever it receives
IgnoresCommandNever == FALSE

\* handleWebSocketMessage: `if (!this.isEnabled) return`
IgnoresCommand == ~isEnabled

\* executeCommand without the activeTabId test
ControllerCommandNoTabTest(c, script) ==
    /\ closePending = 0
    /\ \E s \in Sockets : sock[s] = "open"
    /\ cmd[c].pc = "idle"
    /\ \A d \in Cmds : d < c => cmd[d].pc # "idle"
    /\ cmd' = [cmd EXCEPT ![c] = [pc |-> IF isEnabled THEN "injecting" ELSE "ignored",
                                  script |-> script]]
    /\ lastSend' = NoSend
    /\ lastOp' = IF isEnabled THEN "relay" ELSE "disabled"
    /\ UNCHANGED <<bgVars, mgrVars, wire, handed, closed, envVars, activeTabId, pageVars,
                   inst, activeRequests, outbox>>

\* ws.onmessage -> handleWebSocketMessage(automation_command) ->
\* executeCommand up to `await injectContentScript`; without an active tab
\* executeCommand throws and the catch branch reports SCRIPT_ERROR
ControllerCommand(c, script) ==
    /\ closePending = 0
    /\ \E s \in Sockets : sock[s] = "open"
    /\ cmd[c].pc = "idle"
    /\ \A d \in Cmds : d < c => cmd[d].pc # "idle"
    /\ IF IgnoresCommand
       THEN /\ cmd' = [cmd EXCEPT ![c] = [pc |-> "ignored", script |-> script]]
            /\ lastSend' = NoSend
            /\ lastOp' = "disabled"
            /\ UNCHANGED <<wire, handed>>
       ELSE IF activeTabId = 0
       THEN /\ CanTransmit
            /\ cmd' = [cmd EXCEPT ![c] = [pc |-> "failed", script |-> script]]
            /\ SendMessage(ScriptError(c, NoActiveTab), sock, FALSE)
            /\ handed' = Transmitted(c)
            /\ lastOp' = "sendMessage"
       ELSE /\ cmd' = [cmd EXCEPT ![c] = [pc |-> "injecting", script |-> script]]
            /\ lastSend' = NoSend
            /\ lastOp' = "relay"
            /\ UNCHANGED <<wire, handed>>
    /\ UNCHANGED <<bgVars, mgrVars, closed, envVars, activeTabId, pageVars, inst,
                   activeRequests, outbox>>

\* injectContentScript(tabId) completes: the five files ran in the page, and
\* the bootstrap constructs a new AutomationHandler now, or after the load
\* event when the document is still loading; for a chrome:// URL
\* executeScript is skipped; then executeCommand goes on to
\* chrome.tabs.sendMessage
InjectContentScript(c) ==
    /\ closePending = 0
    /\ cmd[c].pc = "injecting"
    /\ handlers + pendingInit < MaxHandlers
    /\ CASE docState = "internal" -> UNCHANGED <<handlers, pendingInit>>
         [] docState = "loading" -> pendingInit' = pendingInit + 1 /\ UNCHANGED handlers
         [] OTHER -> handlers' = handlers + 1 /\ UNCHANGED pendingInit
    /\ cmd' = [cmd EXCEPT ![c].pc = "relaying"]
    /\ lastOp' = "relay"
    /\ lastSend' = NoSend
    /\ UNCHANGED <<bgVars, mgrVars, wire, closed, envVars, activeTabId, docState,
                   navPending, inst, activeRequests, outbox, handed>>

\* scripts the controller sends, as the parts script.split('|') yields
Scripts == {<<"getTitle">>, <<"GETTITLE">>, <<"navigate", "url">>, <<"navigate">>,
            <<"back">>, <<"bogus">>}

\* one script for each path of handleAction
RelayScripts == {<<"getTitle">>, <<"navigate", "url">>, <<"bogus">>}

\* params = {}: no property is set ("none" stands for undefined)
EmptyParams ==
    [t |-> "object", selector |-> "none", value |-> "none", xpath |-> "none",
     url |-> "none", items |-> <<>>]

\* JSON texts among the segments in use
UrlJson == "{\"url\":\"u\"}"
KeysJson == "{\"selector\":\"#a\",\"value\":\"hi\"}"

\* JSON.parse(text): the value, or a SyntaxError (ok = FALSE)
JsonParse(text) ==
    CASE text = UrlJson -> [ok |-> TRUE, val |-> [EmptyParams EXCEPT !.url = "u"]]
      [] text = KeysJson -> [ok |-> TRUE, val |-> [EmptyParams EXCEPT !.selector = "#a", !.value = "hi"]]
      [] OTHER -> [ok |-> FALSE, val |-> EmptyParams]

\* String.prototype.trim on the names in use
Trim(name) ==
    CASE name = " click " -> "click"
      [] OTHER -> name

\* String.prototype.toLowerCase on the names in use
LowerCased(name) ==
    CASE name \in {"getTitle", "GETTITLE"} -> "gettitle"
      [] name = "SEND_KEYS" -> "send_keys"
      [] name = "NAVIGATE" -> "navigate"
      [] name = "clickElement" -> "clickelement"
      [] OTHER -> name

\* commandMap[commandLower], "" when the name has no entry
CommandMap(commandLower) ==
    CASE commandLower \in {"click", "clickelement", "click_element"} -> "click_element"
      [] commandLower \in {"clear", "clearelement", "clear_element"} -> "clear_element"
      [] commandLower \in {"sendkeys", "send_keys"} -> "send_keys"
      [] commandLower = "find_element_by_xpath" -> "find_element_by_xpath"
      [] commandLower = "find_elements_by_xpath" -> "find_elements_by_xpath"
      [] OTHER -> ""

\* commandMap[commandLower] || commandRaw
StandardCommand(commandRaw) ==
    IF CommandMap(LowerCased(commandRaw)) # ""
    THEN CommandMap(LowerCased(commandRaw))
    ELSE commandRaw

SendKeysIncomplete == "Command parsing error: send_keys requires both selector and value parameters"
InvalidFormat == "Command parsing error: Invalid command format: script must be a string"

\* parseCommand(script): the returned {command, params}, or the Error it
\* throws (error # "none")
ParseCommand(script) ==
    LET n == Len(script)
        standardCommand == StandardCommand(Trim(script[1]))
        Returns(p) == [command |-> standardCommand, params |-> p, error |-> "none"]
        Throws(e) == [command |-> standardCommand, params |-> EmptyParams, error |-> e]
    IN  IF script = <<"">> THEN Throws(InvalidFormat)
        ELSE IF n = 1 THEN Returns(EmptyParams)
        ELSE CASE standardCommand = "send_keys" ->
                    IF n < 3
                    THEN Throws(SendKeysIncomplete)
                    ELSE Returns([EmptyParams EXCEPT !.selector = script[2], !.value = script[3]])
               [] standardCommand \in {"clear_element", "click_element"} ->
                    Returns([EmptyParams EXCEPT !.selector = script[2]])
               [] standardCommand \in {"find_element_by_xpath", "find_elements_by_xpath"} ->
                    Returns([EmptyParams EXCEPT !.xpath = script[2]])
               [] standardCommand = "navigate" ->
                    Returns([EmptyParams EXCEPT !.url = script[2]])
               [] OTHER ->
                    IF JsonParse(script[2]).ok
                    THEN Returns(JsonParse(script[2]).val)
                    ELSE IF n = 2
                    THEN Returns([EmptyParams EXCEPT !.t = "string", !.items = <<script[2]>>])
                    ELSE Returns([EmptyParams EXCEPT !.t = "array", !.items = SubSeq(script, 2, n)])

\* a lookup that compares the names as written
ToLowerCaseIdentity(name) == name

\* command.toLowerCase() and cmd.toLowerCase() in handleAction's lookup
ToLowerCase(name) == LowerCased(name)

\* Object.keys(this.commands) after registerCommands
RegisteredCommands == {"navigate", "back", "getTitle"}

\* handleAction's lookup: the registered names equal to command ignoring case
ActualCommand(command) ==
    {r \in RegisteredCommands : ToLowerCase(r) = ToLowerCase(command)}

\* the path handleAction takes for a script
KindOf(script) ==
    LET actual == ActualCommand(ParseCommand(script).command)
    IN  IF actual = {} THEN "unknown"
        ELSE IF actual = {"navigate"} THEN "navigate"
        ELSE "regular"

\* basicCommands.navigate gets past its params.url check
NavigatesWithUrl(script) ==
    KindOf(script) = "navigate" /\ ParseCommand(script).params.url # "none"

\* handleAction(action) of handler h up to its first await
HandleActionStart(kind) ==
    CASE kind = "unknown" -> "rejected"
      [] kind = "navigate" -> "navwait"
      [] OTHER -> "racing"

\* what the listeners emit while the command message is being delivered
EmittedOnDelivery(c, script) ==
    CASE KindOf(script) = "unknown" -> {Emit("SCRIPT_ERROR", c, UnknownCommand, c, h) : h \in 1..handlers}
      [] NavigatesWithUrl(script) -> {Emit("SCRIPT_RESULT", 0, "none", c, h) : h \in 1..handlers}
      [] OTHER -> {}

\* sendMessageToTab(tabId, message): the message reaches every onMessage
\* listener of the page, each answers RECEIVED and runs handleAction; with no
\* listener chrome.runtime.lastError rejects and handleWebSocketMessage
\* reports SCRIPT_ERROR
DeliverToPage(c) ==
    /\ closePending = 0
    /\ cmd[c].pc = "relaying"
    /\ IF handlers = 0
       THEN /\ CanTransmit
            /\ cmd' = [cmd EXCEPT ![c].pc = "failed"]
            /\ SendMessage(ScriptError(c, NoReceiver), sock, FALSE)
            /\ handed' = Transmitted(c)
            /\ lastOp' = "sendMessage"
            /\ UNCHANGED <<inst, activeRequests, outbox, navPending>>
       ELSE /\ cmd' = [cmd EXCEPT ![c].pc = "delivered"]
            /\ inst' = [inst EXCEPT ![c] =
                           [h \in Handlers |-> IF h <= handlers
                                               THEN HandleActionStart(KindOf(cmd[c].script))
                                               ELSE "none"]]
            /\ activeRequests' =
                   [h \in Handlers |->
                       IF h <= handlers /\ HandleActionStart(KindOf(cmd[c].script)) \in Pending
                       THEN activeRequests[h] \cup {c}
                       ELSE activeRequests[h]]
            /\ outbox' = outbox \cup EmittedOnDelivery(c, cmd[c].script)
            /\ navPending' = (navPending \/ NavigatesWithUrl(cmd[c].script))
            /\ lastSend' = NoSend
            /\ lastOp' = "relay"
            /\ UNCHANGED <<wire, handed>>
    /\ UNCHANGED <<bgVars, mgrVars, closed, envVars, activeTabId, docState, handlers,
                   pendingInit>>

\* handleAction whose timer settles nothing
TimeoutFiresNoReject(c, h) ==
    /\ closePending = 0
    /\ inst[c][h] = "racing"
    /\ lastOp' = "relay"
    /\ lastSend' = NoSend
    /\ UNCHANGED <<bgVars, mgrVars, wire, closed, envVars, activeTabId, pageVars, cmd,
                   handed, inst, activeRequests, outbox>>

\* handleAction: the 30 s timer wins Promise.race: the entry is deleted and
\* the listener's catch emits SCRIPT_ERROR
TimeoutFires(c, h) ==
    /\ closePending = 0
    /\ inst[c][h] = "racing"
    /\ inst' = [inst EXCEPT ![c][h] = "timedout"]
    /\ activeRequests' = [activeRequests EXCEPT ![h] = @ \ {c}]
    /\ outbox' = outbox \cup {Emit("SCRIPT_ERROR", c, CommandTimeout, c, h)}
    /\ lastOp' = "relay"
    /\ lastSend' = NoSend
    /\ UNCHANGED <<bgVars, mgrVars, wire, closed, envVars, activeTabId, pageVars, cmd,
                   handed>>

\* a dispatcher that settles commands in the order they arrived
ExecSettlesInOrder(c, h, ok) ==
    /\ closePending = 0
    /\ inst[c][h] = "racing"
    /\ \A d \in Cmds : d < c => inst[d][h] \notin Pending
    /\ inst' = [inst EXCEPT ![c][h] = "done"]
    /\ activeRequests' = [activeRequests EXCEPT ![h] = @ \ {c}]
    /\ outbox' = outbox \cup {IF ok THEN Emit("SCRIPT_RESULT", c, "none", c, h)
                                  ELSE Emit("SCRIPT_ERROR", c, ExecutorFailure, c, h)}
    /\ lastOp' = "relay"
    /\ lastSend' = NoSend
    /\ UNCHANGED <<bgVars, mgrVars, wire, closed, envVars, activeTabId, pageVars, cmd,
                   handed>>

\* handleAction: the command's promise wins Promise.race, fulfilled (ok) or
\* rejected: the entry is deleted and the listener emits the result
ExecSettles(c, h, ok) ==
    /\ closePending = 0
    /\ inst[c][h] = "racing"
    /\ inst' = [inst EXCEPT ![c][h] = "done"]
    /\ activeRequests' = [activeRequests EXCEPT ![h] = @ \ {c}]
    /\ outbox' = outbox \cup {IF ok THEN Emit("SCRIPT_RESULT", c, "none", c, h)
                                  ELSE Emit("SCRIPT_ERROR", c, ExecutorFailure, c, h)}
    /\ lastOp' = "relay"
    /\ lastSend' = NoSend
    /\ UNCHANGED <<bgVars, mgrVars, wire, closed, envVars, activeTabId, pageVars, cmd,
                   handed>>

\* the command's promise settles after the race was lost: nobody listens
LateSettle(c, h) ==
    /\ closePending = 0
    /\ inst[c][h] = "timedout"
    /\ inst' = [inst EXCEPT ![c][h] = "late"]
    /\ lastOp' = "relay"
    /\ lastSend' = NoSend
    /\ UNCHANGED <<bgVars, mgrVars, wire, closed, envVars, activeTabId, pageVars, cmd,
                   handed, activeRequests, outbox>>

\* handleNavigationCommand: the 30 s timer rejects with 'Navigation timeout'
NavTimeoutFires(c, h) ==
    /\ closePending = 0
    /\ inst[c][h] = "navwait"
    /\ inst' = [inst EXCEPT ![c][h] = "navtimedout"]
    /\ activeRequests' = [activeRequests EXCEPT ![h] = @ \ {c}]
    /\ outbox' = outbox \cup {Emit("SCRIPT_ERROR", c, NavigationTimeout, c, h)}
    /\ lastOp' = "relay"
    /\ lastSend' = NoSend
    /\ UNCHANGED <<bgVars, mgrVars, wire, closed, envVars, activeTabId, pageVars, cmd,
                   handed>>

\* the window's load event: waiting bootstraps construct their handler, and
\* handleNavigationCommand's one-shot listener resolves with true
LoadEvent ==
    /\ closePending = 0
    /\ docState = "loading"
    /\ docState' = "complete"
    /\ handlers' = handlers + pendingInit
    /\ pendingInit' = 0
    /\ inst' = [c \in Cmds |-> [h \in Handlers |->
                   IF inst[c][h] = "navwait" THEN "navdone" ELSE inst[c][h]]]
    /\ activeRequests' = [h \in Handlers |->
                   {c \in activeRequests[h] : inst[c][h] # "navwait"}]
    /\ outbox' = outbox \cup {Emit("SCRIPT_RESULT", c, "none", c, h) :
                                <<c, h>> \in {p \in Cmds \X Handlers : inst[p[1]][p[2]] = "navwait"}}
    /\ lastOp' = "relay"
    /\ lastSend' = NoSend
    /\ UNCHANGED <<bgVars, mgrVars, wire, closed, envVars, activeTabId, navPending, cmd,
                   handed>>

\* the document is replaced, by navigate's delayed location.href assignment
\* or by the user: the page context with its handlers, timers and promises is
\* gone, and the manifest's content scripts start in the new document
PageUnloads ==
    /\ closePending = 0
    /\ docState' = "loading"
    /\ handlers' = 0
    /\ pendingInit' = 1
    /\ navPending' = FALSE
    /\ inst' = [c \in Cmds |-> [h \in Handlers |->
                   IF inst[c][h] \in Pending \cup {"timedout"} THEN "dead" ELSE inst[c][h]]]
    /\ activeRequests' = [h \in Handlers |-> {}]
    /\ lastOp' = "relay"
    /\ lastSend' = NoSend
    /\ UNCHANGED <<bgVars, mgrVars, wire, closed, envVars, activeTabId, cmd, outbox,
                   handed>>

\* the tab is taken to a chrome:// page: the manifest's content scripts do
\* not run there
OpenInternalPage ==
    /\ closePending = 0
    /\ docState # "internal"
    /\ docState' = "internal"
    /\ handlers' = 0
    /\ pendingInit' = 0
    /\ navPending' = FALSE
    /\ inst' = [c \in Cmds |-> [h \in Handlers |->
                   IF inst[c][h] \in Pending \cup {"timedout"} THEN "dead" ELSE inst[c][h]]]
    /\ activeRequests' = [h \in Handlers |-> {}]
    /\ lastOp' = "relay"
    /\ lastSend' = NoSend
    /\ UNCHANGED <<bgVars, mgrVars, wire, closed, envVars, activeTabId, cmd, outbox,
                   handed>>

\* chrome.runtime.onMessage of the background: handleMessage forwards the
\* page's SCRIPT_RESULT / SCRIPT_ERROR to the controller
RelayResult ==
    \E m \in outbox :
        /\ HandleMessage([type |-> m.type, id |-> m.id, error |-> m.error], FALSE)
        /\ outbox' = outbox \ {m}
        /\ handed' = IF m.id \in Cmds THEN Transmitted(m.id) ELSE handed
        /\ UNCHANGED <<activeTabId, pageVars, cmd, inst, activeRequests>>

(***************************************************************************)
(* Environment                                                             *)
(***************************************************************************)
\* from now on nobody toggles the extension or suspends the worker
GoQuiet ==
    /\ ~quiet
    /\ closePending = 0
    /\ togglePending = "none"
    /\ quiet' = TRUE
    /\ UNCHANGED <<bgVars, connVars, lastOp, closed, stable, auxVars, relayVars>>

\* from now on the transport is available: no socket fails or is closed by the peer
TransportRestored ==
    /\ quiet
    /\ ~stable
    /\ closePending = 0
    /\ stable' = TRUE
    /\ UNCHANGED <<bgVars, connVars, lastOp, closed, quiet, auxVars, relayVars>>

(***************************************************************************)
(* TabManager with several tabs: the browser's tab events, the initial     *)
(* query and executeCommand's two reads of activeTabId                     *)
(***************************************************************************)
\* the user switches to tab t: chrome.tabs.onActivated is sent to the worker
UserActivates(t) ==
    /\ t # browserActive
    /\ Len(tabEvents) < MaxTabEvents
    /\ browserActive' = t
    /\ tabEvents' = Append(tabEvents, [kind |-> "activated", tab |-> t, active |-> TRUE])
    /\ UNCHANGED <<query, lastEvent, routed,
                   now, flight, requestMap, pageLoading, lastPageEvent,
                   clicks,
                   cookieIn, cookieOut,
                   coreVars, parserVars, formatVars, lifeVars, mainVars>>

\* tab t finishes loading: chrome.tabs.onUpdated with status complete and
\* the tab's active flag of that moment
PageLoaded(t) ==
    /\ Len(tabEvents) < MaxTabEvents
    /\ tabEvents' = Append(tabEvents, [kind |-> "updated", tab |-> t,
                                       active |-> (t = browserActive)])
    /\ UNCHANGED <<browserActive, query, lastEvent, routed,
                   now, flight, requestMap, pageLoading, lastPageEvent,
                   clicks,
                   cookieIn, cookieOut,
                   coreVars, parserVars, formatVars, lifeVars, mainVars>>

\* the listeners of setupTabListeners
TabListeners(e) ==
    IF e.kind = "activated" \/ e.active
    THEN /\ activeTabId' = e.tab
         /\ lastEvent' = e.tab
    ELSE UNCHANGED <<activeTabId, lastEvent>>

DeliverTabEvent ==
    /\ tabEvents # <<>>
    /\ TabListeners(Head(tabEvents))
    /\ tabEvents' = Tail(tabEvents)
    /\ UNCHANGED <<browserActive, query, routed>>
    /\ UNCHANGED <<bgVars, connVars, lastOp, closed, quiet, stable, docState, handlers,
                   pendingInit, navPending, cmd, inst, activeRequests, outbox, handed,
                   parserVars, formatVars, lifeVars, mainVars,
                   now, flight, requestMap, pageLoading, lastPageEvent,
                   cookieIn, cookieOut, clicks>>

\* chrome.tabs.query is answered by the browser with the tab active then
QueryAnswered ==
    /\ query.pc = "issued"
    /\ query' = [pc |-> "answered", tab |-> browserActive]
    /\ UNCHANGED <<browserActive, tabEvents, lastEvent, routed,
                   now, flight, requestMap, pageLoading, lastPageEvent,
                   clicks,
                   cookieIn, cookieOut,
                   coreVars, parserVars, formatVars, lifeVars, mainVars>>

\* initialize() continues after its await: the answer is assigned as it is
QueryResolves ==
    /\ query.pc = "answered"
    /\ activeTabId' = query.tab
    /\ query' = [query EXCEPT !.pc = "applied"]
    /\ UNCHANGED <<browserActive, tabEvents, lastEvent, routed>>
    /\ UNCHANGED <<bgVars, connVars, lastOp, closed, quiet, stable, docState, handlers,
                   pendingInit, navPending, cmd, inst, activeRequests, outbox, handed,
                   parserVars, formatVars, lifeVars, mainVars,
                   now, flight, requestMap, pageLoading, lastPageEvent,
                   cookieIn, cookieOut, clicks>>

\* executeCommand up to its await, for a command that comes when the one
\* before it has settled: the injection goes to the tab that activeTabId
\* names now
ExecuteCommand ==
    /\ routed.pc # "injecting"
    /\ routed' = IF activeTabId = 0
                 THEN [pc |-> "failed", injected |-> 0, relayed |-> 0]
                 ELSE [pc |-> "injecting", injected |-> activeTabId, relayed |-> 0]
    /\ UNCHANGED <<browserActive, tabEvents, query, lastEvent,
                   now, flight, requestMap, pageLoading, lastPageEvent,
                   clicks,
                   cookieIn, cookieOut,
                   coreVars, parserVars, formatVars, lifeVars, mainVars>>

\* executeCommand after its await: sendMessageToTab(this.activeTabId, ...)
\* reads the field again; a failed injection is rethrown
SendToActiveTab == activeTabId

InjectionSettles(fail) ==
    /\ routed.pc = "injecting"
    /\ routed' = IF fail
                 THEN [routed EXCEPT !.pc = "failed"]
                 ELSE [routed EXCEPT !.pc = "relayed", !.relayed = SendToActiveTab]
    /\ UNCHANGED <<browserActive, tabEvents, query, lastEvent,
                   now, flight, requestMap, pageLoading, lastPageEvent,
                   clicks,
                   cookieIn, cookieOut,
                   coreVars, parserVars, formatVars, lifeVars, mainVars>>

(***************************************************************************)
(* One AutomationHandler and its activeRequests map, keyed as the code     *)
(* keys it                                                                 *)
(***************************************************************************)
\* requestId = action.command_id || Date.now().toString()
RequestId(commandId, clock) ==
    IF commandId # 0 THEN <<"id", commandId>> ELSE <<"ts", clock>>

\* command_id 0 stands for a command without one
RequestIds == {RequestId(i, t) : i \in 0..MaxIds, t \in 1..MaxClock}

\* time passes in the page
ClockTicks ==
    /\ now < MaxClock
    /\ now' = now + 1
    /\ lastPageEvent' = "none"
    /\ UNCHANGED <<flight, requestMap, pageLoading,
                   browserActive, tabEvents, query, lastEvent, routed,
                   clicks,
                   cookieIn, cookieOut,
                   coreVars, parserVars, formatVars, lifeVars, mainVars>>

\* handleAction(action) up to its await: an unknown command throws before
\* the entry is set; navigate registers the load listener and the 30 s
\* timer of handleNavigationCommand, any other command starts the 30 s timer
\* of the race. The handler is constructed once the document has loaded
HandleAction(c, commandId, kind) ==
    /\ flight[c].pc = "idle"
    /\ ~pageLoading
    /\ LET requestId == RequestId(commandId, now)
       IN  IF HandleActionStart(kind) = "rejected"
           THEN /\ flight' = [flight EXCEPT ![c].pc = "rejected"]
                /\ UNCHANGED requestMap
           ELSE /\ flight' = [flight EXCEPT ![c] =
                                 [pc |-> HandleActionStart(kind), id |-> requestId,
                                  listener |-> (kind = "navigate"), timer |-> TRUE]]
                /\ requestMap' = [requestMap EXCEPT ![requestId] = c]
    /\ lastPageEvent' = "none"
    /\ UNCHANGED <<now, pageLoading,
                   browserActive, tabEvents, query, lastEvent, routed,
                   clicks,
                   cookieIn, cookieOut,
                   coreVars, parserVars, formatVars, lifeVars, mainVars>>

\* handleAction that keeps its entry when the command fails
CommandSettlesKeepsFailed(c, ok) ==
    /\ flight[c].pc = "racing"
    /\ flight' = [flight EXCEPT ![c].pc = "done"]
    /\ requestMap' = IF ok THEN [requestMap EXCEPT ![flight[c].id] = 0] ELSE requestMap
    /\ lastPageEvent' = "none"
    /\ UNCHANGED <<now, pageLoading,
                   browserActive, tabEvents, query, lastEvent, routed,
                   clicks,
                   cookieIn, cookieOut,
                   coreVars, parserVars, formatVars, lifeVars, mainVars>>

\* the command's promise wins the race, fulfilled or rejected: delete(requestId)
\* on both paths; the timer of the race is never cleared
CommandSettles(c, ok) ==
    /\ flight[c].pc = "racing"
    /\ flight' = [flight EXCEPT ![c].pc = "done"]
    /\ requestMap' = [requestMap EXCEPT ![flight[c].id] = 0]
    /\ lastPageEvent' = "none"
    /\ UNCHANGED <<now, pageLoading,
                   browserActive, tabEvents, query, lastEvent, routed,
                   clicks,
                   cookieIn, cookieOut,
                   coreVars, parserVars, formatVars, lifeVars, mainVars>>

\* the 30 s timer of the race fires: first, it rejects and the catch deletes
\* the entry; after the command settled, it rejects a settled race
RaceTimerFires(c) ==
    /\ flight[c].pc \in {"racing", "done"}
    /\ flight[c].timer
    /\ flight' = [flight EXCEPT ![c].timer = FALSE,
                                ![c].pc = IF @ = "racing" THEN "timedout" ELSE @]
    /\ requestMap' = IF flight[c].pc = "racing"
                     THEN [requestMap EXCEPT ![flight[c].id] = 0]
                     ELSE requestMap
    /\ lastPageEvent' = "none"
    /\ UNCHANGED <<now, pageLoading,
                   browserActive, tabEvents, query, lastEvent, routed,
                   clicks,
                   cookieIn, cookieOut,
                   coreVars, parserVars, formatVars, lifeVars, mainVars>>

\* navigationTimeout fires: reject('Navigation timeout'); handleNavigation
\* stays registered on the window
NavigationTimerFires(c) ==
    /\ flight[c].pc = "navwait"
    /\ flight' = [flight EXCEPT ![c].pc = "navtimedout", ![c].timer = FALSE]
    /\ requestMap' = [requestMap EXCEPT ![flight[c].id] = 0]
    /\ lastPageEvent' = "none"
    /\ UNCHANGED <<now, pageLoading,
                   browserActive, tabEvents, query, lastEvent, routed,
                   clicks,
                   cookieIn, cookieOut,
                   coreVars, parserVars, formatVars, lifeVars, mainVars>>

\* the window's load event runs every registered handleNavigation:
\* clearTimeout, removeEventListener, resolve(true); handleAction then
\* deletes the entry of each wait that was pending
HandleNavigation ==
    /\ pageLoading
    /\ pageLoading' = FALSE
    /\ flight' = [c \in Cmds |->
                    IF flight[c].listener
                    THEN [flight[c] EXCEPT !.listener = FALSE, !.timer = FALSE,
                                           !.pc = IF @ = "navwait" THEN "navdone" ELSE @]
                    ELSE flight[c]]
    /\ requestMap' = [id \in RequestIds |->
                        IF \E c \in Cmds : flight[c].pc = "navwait" /\ flight[c].id = id
                        THEN 0 ELSE requestMap[id]]
    /\ lastPageEvent' = "none"
    /\ UNCHANGED <<now,
                   browserActive, tabEvents, query, lastEvent, routed,
                   clicks,
                   cookieIn, cookieOut,
                   coreVars, parserVars, formatVars, lifeVars, mainVars>>

\* AutomationHandler.clearActiveRequests
ClearActiveRequests == [id \in RequestIds |-> 0]

\* the page unloads: the unload listener of content/main.js clears the map,
\* then the context with its listeners, timers and promises is gone
PageUnload ==
    /\ \E c \in Cmds : flight[c].pc # "idle"
    /\ lastPageEvent # "unload"
    /\ requestMap' = ClearActiveRequests
    /\ flight' = [c \in Cmds |->
                    [flight[c] EXCEPT !.listener = FALSE, !.timer = FALSE,
                                      !.pc = IF @ \in Pending THEN "dead" ELSE @]]
    /\ pageLoading' = TRUE
    /\ lastPageEvent' = "unload"
    /\ UNCHANGED <<now,
                   browserActive, tabEvents, query, lastEvent, routed,
                   clicks,
                   cookieIn, cookieOut,
                   coreVars, parserVars, formatVars, lifeVars, mainVars>>

\* the worker's socket drops: handleConnectionError resets the worker's
\* connection fields; no message goes to the page
ConnectionDrops ==
    /\ lastPageEvent # "drop"
    /\ lastPageEvent' = "drop"
    /\ UNCHANGED <<now, flight, requestMap, pageLoading,
                   browserActive, tabEvents, query, lastEvent, routed,
                   clicks,
                   cookieIn, cookieOut,
                   coreVars, parserVars, formatVars, lifeVars, mainVars>>

(***************************************************************************)
(* click_element and the result the handler emits for it                   *)
(***************************************************************************)
\* click_element(params): a missing element (0, for singleNodeValue null)
\* throws; else scrollIntoView,
\* setTimeout(click, 100) and `return true`
ClickElement(c, element) ==
    /\ clicks[c].pc = "idle"
    /\ clicks' = [clicks EXCEPT ![c].pc = IF element = 0 THEN "failed" ELSE "scheduled",
                                ![c].element = element]
    /\ UNCHANGED <<browserActive, tabEvents, query, lastEvent, routed,
                   now, flight, requestMap, pageLoading, lastPageEvent,
                   cookieIn, cookieOut,
                   coreVars, parserVars, formatVars, lifeVars, mainVars>>

\* handleAction's await resumes with the value click_element returned, or
\* its catch with the error, and the message listener emits SCRIPT_RESULT or
\* SCRIPT_ERROR: promise reactions, run before any timer callback
ClickResultEmitted(c) ==
    /\ clicks[c].pc \in {"failed", "scheduled"}
    /\ clicks[c].emitted = "none"
    /\ clicks' = [clicks EXCEPT ![c].emitted =
                     IF clicks[c].pc = "failed" THEN "error" ELSE "success"]
    /\ UNCHANGED <<browserActive, tabEvents, query, lastEvent, routed,
                   now, flight, requestMap, pageLoading, lastPageEvent,
                   cookieIn, cookieOut,
                   coreVars, parserVars, formatVars, lifeVars, mainVars>>

\* the 100 ms timer: element.click(), or the dispatched MouseEvent when that
\* throws
ClickTimerFires(c, native) ==
    /\ clicks[c].pc = "scheduled"
    /\ clicks[c].emitted # "none"
    /\ clicks' = [clicks EXCEPT ![c].pc = "clicked",
                                ![c].clicked = IF native THEN "native" ELSE "simulated"]
    /\ UNCHANGED <<browserActive, tabEvents, query, lastEvent, routed,
                   now, flight, requestMap, pageLoading, lastPageEvent,
                   cookieIn, cookieOut,
                   coreVars, parserVars, formatVars, lifeVars, mainVars>>

\* the page unloads within the 100 ms: the timer goes with the context
ClickPageUnload ==
    /\ \E c \in Cmds : clicks[c].pc = "scheduled"
    /\ clicks' = [c \in Cmds |->
                    IF clicks[c].pc = "scheduled"
                    THEN [clicks[c] EXCEPT !.pc = "dropped"]
                    ELSE clicks[c]]
    /\ UNCHANGED <<browserActive, tabEvents, query, lastEvent, routed,
                   now, flight, requestMap, pageLoading, lastPageEvent,
                   cookieIn, cookieOut,
                   coreVars, parserVars, formatVars, lifeVars, mainVars>>

(***************************************************************************)
(* getCookiesComplete: the GET_ALL_COOKIES response merged with            *)
(* document.cookie                                                         *)
(***************************************************************************)
\* the cookies a source lists, by name and in its order
Entries(names, from) ==
    [i \in 1..Len(names) |-> [name |-> names[i], from |-> from, at |-> i]]

\* BackgroundManager.handleMessage, default branch, for a message that is
\* neither SCRIPT_RESULT nor SCRIPT_ERROR: the error of its answer
DefaultBranch(enabled) ==
    IF ~enabled THEN "Extension is disabled" ELSE "Unknown message type"

\* Map.set(key, value): a new key goes to the end, a known key keeps its place
MapSet(map, entry) ==
    IF \E i \in 1..Len(map) : map[i].name = entry.name
    THEN [i \in 1..Len(map) |-> IF map[i].name = entry.name THEN entry ELSE map[i]]
    ELSE Append(map, entry)

MapHas(map, name) == \E i \in 1..Len(map) : map[i].name = name

RECURSIVE SetAll(_, _)
SetAll(map, entries) ==
    IF entries = <<>> THEN map
    ELSE SetAll(MapSet(map, Head(entries)), Tail(entries))

RECURSIVE SetMissing(_, _)
SetMissing(map, entries) ==
    IF entries = <<>> THEN map
    ELSE SetMissing(IF MapHas(map, Head(entries).name) THEN map
                    ELSE MapSet(map, Head(entries)),
                    Tail(entries))

\* the callback of getCookiesComplete: an error answer resolves with [];
\* else the response's cookies are set first and document.cookie's entries
\* fill in the names that are missing
GetCookiesComplete(response, documentCookies) ==
    IF response.error \notin {"none", "undefined"}
    THEN <<>>
    ELSE SetMissing(SetAll(<<>>, response.cookies), documentCookies)

\* getAllStorage calls getCookiesComplete: the message is sent, the page has
\* its document.cookie, and the response arrives: an error answer, nothing
\* (undefined) or a list of cookies ("none": no error)
CookiesRequested(error, apiNames, docNames) ==
    /\ cookieIn = <<>>
    /\ error # "none" => apiNames = <<>>
    /\ cookieIn' = <<[response |-> [error |-> error, cookies |-> Entries(apiNames, "api")],
                      document |-> Entries(docNames, "document")]>>
    /\ UNCHANGED <<cookieOut,
                   browserActive, tabEvents, query, lastEvent, routed,
                   now, flight, requestMap, pageLoading, lastPageEvent,
                   clicks,
                   coreVars, parserVars, formatVars, lifeVars, mainVars>>

\* the callback runs and the promise resolves
CookiesResolved ==
    /\ cookieIn # <<>>
    /\ cookieOut = <<>>
    /\ cookieOut' = <<GetCookiesComplete(cookieIn[1].response, cookieIn[1].document)>>
    /\ UNCHANGED <<cookieIn,
                   browserActive, tabEvents, query, lastEvent, routed,
                   now, flight, requestMap, pageLoading, lastPageEvent,
                   clicks,
                   coreVars, parserVars, formatVars, lifeVars, mainVars>>

Init ==
    /\ stored \in {"unset", "true", "false"}
    /\ isEnabled = FALSE
    /\ initialized = FALSE
    /\ togglePending = "none"
    /\ ws = 0
    /\ isConnecting = FALSE
    /\ reconnectTimer = FALSE
    /\ timers = 0
    /\ connectionState = "disconnected"
    /\ lastDelivered = "none"
    /\ prevDelivered = "none"
    /\ sock = [s \in Sockets |-> "free"]
    /\ wire = <<>>
    /\ closePending = 0
    /\ lastSend = NoSend
    /\ lastOp = "constructor"
    /\ closed = FALSE
    /\ quiet = FALSE
    /\ stable = FALSE
    /\ activeTabId = 0
    /\ docState = "loading"
    /\ handlers = 0
    /\ pendingInit \in {0, 1}
    /\ navPending = FALSE
    /\ cmd = [c \in Cmds |-> [pc |-> "idle", script |-> <<>>]]
    /\ inst = [c \in Cmds |-> [h \in Handlers |-> "none"]]
    /\ activeRequests = [h \in Handlers |-> {}]
    /\ outbox = {}
    /\ handed = [c \in Cmds |-> 0]
    /\ raw = <<>>
    /\ parsed = <<>>
    /\ result = <<>>
    /\ formatted = <<>>
    /\ reformatted = <<>>
    /\ restarted = FALSE
    /\ lastToggle = "none"
    /\ nmEnabled = FALSE
    /\ nmListeners = 0
    /\ statusCheck = FALSE
    /\ browserActive = 1
    /\ tabEvents = <<>>
    /\ query = [pc |-> "issued", tab |-> 0]
    /\ lastEvent = 0
    /\ routed = [pc |-> "idle", injected |-> 0, relayed |-> 0]
    /\ now = 1
    /\ flight = [c \in Cmds |-> [pc |-> "idle", id |-> <<>>, listener |-> FALSE,
                                  timer |-> FALSE]]
    /\ requestMap = [id \in RequestIds |-> 0]
    /\ pageLoading = FALSE
    /\ lastPageEvent = "none"
    /\ clicks = [c \in Cmds |-> [pc |-> "idle", element |-> 0, emitted |-> "none",
                                  clicked |-> "none"]]
    /\ cookieIn = <<>>
    /\ cookieOut = <<>>

\* a content script's chrome.runtime.sendMessage reaches handleMessage
RuntimeMessage ==
    /\ \E fail \in BOOLEAN : HandleMessage([type |-> "SCRIPT_RESULT", id |-> 1, error |-> "none"], fail)
    /\ UNCHANGED relayVars

\* the connection manager with its callers and its socket
ConnNext ==
    \/ Initialize
    \/ \E value \in BOOLEAN : ToggleBegin(value)
    \/ ToggleEnd
    \/ Cleanup
    \/ \E s \in Sockets : OnOpen(s)
    \/ \E s \in Sockets : OnError(s)
    \/ \E s \in Sockets : OnClose(s)
    \/ ReconnectTimerFires

Next ==
    \/ ConnNext
    \/ RuntimeMessage
    \/ \E fail \in BOOLEAN : NetworkEvent(fail)

Spec == Init /\ [][Next]_vars

\* The event loop runs a due timer callback and dispatches a socket's open
\* event, the close event that follows an error event, and the close event
\* of a socket the manager closed.
NextLive ==
    \/ ConnNext
    \/ GoQuiet
    \/ TransportRestored

LiveSpec ==
    /\ Init
    /\ [][NextLive]_vars
    /\ WF_vars(ReconnectTimerFires)
    /\ \A s \in Sockets : WF_vars(OnOpen(s))
    /\ \A s \in Sockets : WF_vars(OnClose(s) /\ sock[s] # "open")

CommandKinds == {KindOf(script) : script \in Scripts}

\* one controller, one tab: commands travel to the page and results back
\* over a connection that stays up
RelayNext ==
    \/ Initialize
    \/ \E s \in Sockets : OnOpen(s)
    \/ TabActivated
    \/ \E c \in Cmds, script \in RelayScripts : ControllerCommand(c, script)
    \/ \E c \in Cmds : InjectContentScript(c)
    \/ \E c \in Cmds : DeliverToPage(c)
    \/ \E c \in Cmds, h \in Handlers : TimeoutFires(c, h)
    \/ \E c \in Cmds, h \in Handlers, ok \in BOOLEAN : ExecSettles(c, h, ok)
    \/ \E c \in Cmds, h \in Handlers : LateSettle(c, h)
    \/ \E c \in Cmds, h \in Handlers : NavTimeoutFires(c, h)
    \/ LoadEvent
    \/ PageUnloads
    \/ RelayResult

\* The page's setTimeout callbacks run when they are due.
RelaySpec ==
    /\ Init
    /\ [][RelayNext]_vars
    /\ \A c \in Cmds, h \in Handlers : WF_vars(TimeoutFires(c, h))
    /\ \A c \in Cmds, h \in Handlers : WF_vars(NavTimeoutFires(c, h))

\* the dispatcher: every script, up to the messages the page emits
DispatchNext ==
    \/ Initialize
    \/ \E s \in Sockets : OnOpen(s)
    \/ TabActivated
    \/ \E c \in Cmds, script \in Scripts : ControllerCommand(c, script)
    \/ \E c \in Cmds : InjectContentScript(c)
    \/ \E c \in Cmds : DeliverToPage(c)
    \/ \E c \in Cmds, h \in Handlers : TimeoutFires(c, h)
    \/ \E c \in Cmds, h \in Handlers, ok \in BOOLEAN : ExecSettles(c, h, ok)
    \/ \E c \in Cmds, h \in Handlers : LateSettle(c, h)
    \/ \E c \in Cmds, h \in Handlers : NavTimeoutFires(c, h)
    \/ LoadEvent
    \/ PageUnloads

DispatchSpec ==
    /\ Init
    /\ [][DispatchNext]_vars
    /\ \A c \in Cmds, h \in Handlers : WF_vars(TimeoutFires(c, h))
    /\ \A c \in Cmds, h \in Handlers : WF_vars(NavTimeoutFires(c, h))

\* the Tab Router: a command travels from the socket to the page's listeners
RouterNext ==
    \/ Initialize
    \/ \E s \in Sockets : OnOpen(s)
    \/ TabActivated
    \/ \E c \in Cmds, script \in Scripts : ControllerCommand(c, script)
    \/ \E c \in Cmds : InjectContentScript(c)
    \/ \E c \in Cmds : DeliverToPage(c)
    \/ LoadEvent
    \/ PageUnloads
    \/ OpenInternalPage

RouterSpec == Init /\ [][RouterNext]_vars

\* the enable flag and the commands: the popup toggles while the controller
\* sends commands
GateNext ==
    \/ Initialize
    \/ \E value \in BOOLEAN : ToggleBegin(value)
    \/ ToggleEnd
    \/ \E s \in Sockets : OnOpen(s)
    \/ TabActivated
    \/ \E c \in Cmds, script \in RelayScripts : ControllerCommand(c, script)
    \/ \E c \in Cmds : InjectContentScript(c)
    \/ \E c \in Cmds : DeliverToPage(c)
    \/ LoadEvent

GateSpec == Init /\ [][GateNext]_vars

\* the background worker over its lifetimes: toggles, socket events,
\* installation and restarts
PersistNext ==
    \/ ConnNext
    \/ OnInstalled
    \/ \E persisted \in BOOLEAN : Restart(persisted)

PersistSpec == Init /\ [][PersistNext]_vars

\* the service worker of background/main.js with its socket, its network
\* monitor and its status check
MainNext ==
    \/ MainInitialize
    \/ \E enable \in BOOLEAN : ToggleNetworkMonitor(enable)
    \/ \E fail \in BOOLEAN : WebRequest(fail)
    \/ StatusCheckFires
    \/ MainCleanup
    \/ \E s \in Sockets : OnOpen(s)
    \/ \E s \in Sockets : OnError(s)
    \/ \E s \in Sockets : OnClose(s)
    \/ ReconnectTimerFires

MainSpec == Init /\ [][MainNext]_vars

\* the tab manager among several tabs
TabNext ==
    \/ \E t \in 1..MaxTabs : UserActivates(t)
    \/ \E t \in 1..MaxTabs : PageLoaded(t)
    \/ DeliverTabEvent
    \/ QueryAnswered
    \/ QueryResolves
    \/ ExecuteCommand
    \/ \E fail \in BOOLEAN : InjectionSettles(fail)

TabSpec == Init /\ [][TabNext]_vars

\* one handler of the page and the commands it is given
RequestNext ==
    \/ ClockTicks
    \/ \E c \in Cmds, commandId \in 0..MaxIds, kind \in CommandKinds :
           HandleAction(c, commandId, kind)
    \/ \E c \in Cmds, ok \in BOOLEAN : CommandSettles(c, ok)
    \/ \E c \in Cmds : RaceTimerFires(c)
    \/ \E c \in Cmds : NavigationTimerFires(c)
    \/ HandleNavigation
    \/ PageUnload
    \/ ConnectionDrops

RequestSpec == Init /\ [][RequestNext]_vars

\* click_element commands in the page
ClickNext ==
    \/ \E c \in Cmds, element \in 0..MaxElements : ClickElement(c, element)
    \/ \E c \in Cmds : ClickResultEmitted(c)
    \/ \E c \in Cmds, native \in BOOLEAN : ClickTimerFires(c, native)
    \/ ClickPageUnload

ClickSpec == Init /\ [][ClickNext]_vars

\* getCookiesComplete over the responses and document cookies it can meet
CookieNext ==
    \/ cookieIn = <<>> /\
           \E error \in {DefaultBranch(enabled) : enabled \in BOOLEAN} \cup {"undefined", "none"},
              apiNames, docNames \in UNION {[1..n -> {"sid", "theme"}] : n \in 0..MaxCookies} :
               CookiesRequested(error, apiNames, docNames)
    \/ CookiesResolved

CookieSpec == Init /\ [][CookieNext]_vars

\* timers of a live page fire
RequestLiveSpec ==
    /\ Init
    /\ [][RequestNext]_vars
    /\ \A c \in Cmds : WF_vars(RaceTimerFires(c)) /\ WF_vars(NavigationTimerFires(c))

(***************************************************************************)
(* The command parser on its own                                           *)
(***************************************************************************)
\* names and segments of the wire strings the controller sends
WireNames == {"send_keys", "SEND_KEYS", "sendkeys", " click ", "clickElement",
              "click_element", "clear_element", "find_element_by_xpath",
              "navigate", "NAVIGATE", "getTitle", "bogus"}
WireSegments == {"#a", "hi", UrlJson, KeysJson}

\* script.split('|') of the wire strings: a name and up to MaxSegments segments
WireScripts ==
    {<<"">>} \cup
    {<<name>> \o segs : name \in WireNames,
                        segs \in UNION {[1..k -> WireSegments] : k \in 0..MaxSegments}}

\* handleWebSocketMessage's shortcut for scripts starting with `navigate|`:
\* url = script.split('|')[1]
ShortcutUrl(script) ==
    IF Len(script) > 1 /\ script[1] = "navigate" THEN script[2] ELSE "none"

\* the onMessage listener receives action.script
ReceiveScript(script) ==
    /\ raw = <<>>
    /\ raw' = script
    /\ UNCHANGED <<parsed, formatVars, lifeVars, mainVars, moreVars, coreVars>>

\* handleAction calls parseCommand(action.script)
ParseScript ==
    /\ raw # <<>>
    /\ parsed = <<>>
    /\ parsed' = <<ParseCommand(raw)>>
    /\ UNCHANGED <<raw, formatVars, lifeVars, mainVars, moreVars, coreVars>>

ParserNext ==
    \/ raw = <<>> /\ \E script \in WireScripts : ReceiveScript(script)
    \/ ParseScript

ParserSpec == Init /\ [][ParserNext]_vars

(***************************************************************************)
(* The result formatter on its own.  A JavaScript value is a node          *)
(*   [t, v, id, kids]: t its type, v its text (primitives) or its key      *)
(*   list (objects), kids its elements / property values in order.  An     *)
(*   object or array that is referenced more than once carries an id # 0   *)
(*   and every further reference to it is a "ref" node.                    *)
(***************************************************************************)
Node(t, v, id, kids) == [t |-> t, v |-> v, id |-> id, kids |-> kids]
Null == Node("null", "null", 0, <<>>)
Undefined == Node("undefined", "undefined", 0, <<>>)
Str(text) == Node("string", text, 0, <<>>)
Num(text) == Node("number", text, 0, <<>>)
Arr(id, kids) == Node("array", "", id, kids)
Obj(id, kids) == Node("object", "keys", id, kids)
Ref(id) == Node("ref", "", id, <<>>)
CircularReference == Str("[Circular Reference]")

\* the arrays and objects inside node that carry identity id
RECURSIVE FindAll(_, _)
FindAll(node, id) ==
    (IF node.t \in {"array", "object"} /\ node.id = id THEN {node} ELSE {})
    \cup UNION {FindAll(node.kids[i], id) : i \in DOMAIN node.kids}

\* the value a reference denotes
Resolve(node, root) ==
    IF node.t = "ref" THEN CHOOSE n \in FindAll(root, node.id) : TRUE ELSE node

\* String(result) of the catch branches: Array.prototype.join skips an
\* array that is already being joined, objects give [object Object]
RECURSIVE StringOf(_, _, _)
RECURSIVE JoinFrom(_, _, _, _)
StringOf(node, root, joining) ==
    LET target == Resolve(node, root)
    IN  CASE target.t = "array" ->
                IF target.id # 0 /\ target.id \in joining
                THEN ""
                ELSE JoinFrom(target.kids, 1, root, joining \cup {target.id})
          [] target.t = "object" -> "[object Object]"
          [] target.t \in {"null", "undefined"} -> ""
          [] OTHER -> target.v
JoinFrom(kids, i, root, joining) ==
    IF i > Len(kids) THEN ""
    ELSE StringOf(kids[i], root, joining)
         \o (IF i < Len(kids) THEN "," ELSE "")
         \o JoinFrom(kids, i + 1, root, joining)

\* JSON.parse(JSON.stringify(result, replacer)): the replacer's WeakSet
\* `seen` is threaded through the traversal in property order
RECURSIVE Stringify(_, _, _)
RECURSIVE StringifyFrom(_, _, _, _)
Stringify(node, seen, root) ==
    LET target == Resolve(node, root)
    IN  IF target.t \notin {"array", "object"}
        THEN [val |-> target, seen |-> seen]
        ELSE IF target.id # 0 /\ target.id \in seen
        THEN [val |-> CircularReference, seen |-> seen]
        ELSE LET inner == StringifyFrom(target.kids, 1,
                                        IF target.id # 0 THEN seen \cup {target.id} ELSE seen,
                                        root)
             IN  [val |-> Node(target.t, target.v, 0, inner.vals), seen |-> inner.seen]
StringifyFrom(kids, i, seen, root) ==
    IF i > Len(kids) THEN [vals |-> <<>>, seen |-> seen]
    ELSE LET first == Stringify(kids[i], seen, root)
             rest == StringifyFrom(kids, i + 1, first.seen, root)
         IN  [vals |-> <<first.val>> \o rest.vals, seen |-> rest.seen]

\* a formatter that serialises primitives once more on every pass
FormatPrimitiveStringified(node) ==
    IF node.t = "string" THEN Str("\"" \o node.v \o "\"") ELSE node

\* the final `return result` for booleans, numbers and strings
FormatPrimitive(node) == node

\* formatResult(result) in a frame with `depth` callers on the stack; a
\* call that needs more than `limit` frames raises RangeError, which the
\* caller's outer catch turns into String(result)
RECURSIVE FormatResult(_, _, _, _)
FormatResult(node, root, depth, limit) ==
    CASE node.t \in {"undefined", "null"} -> Null
      [] node.t = "promise" ->
            Node("promise", "", 0, <<FormatResult(node.kids[1], node.kids[1], 0, limit)>>)
      [] node.t = "error" ->
            Node("object", "error,stack", 0, <<Str(node.v), Str("stack")>>)
      [] node.t = "function" ->
            Str("[Function: " \o (IF node.v = "" THEN "anonymous" ELSE node.v) \o "]")
      [] node.t = "element" ->
            Node("object", "tagName,id,className,textContent,attributes", 0,
                 <<Str(node.v), Str(""), Str(""), Str(""), Node("object", "", 0, <<>>)>>)
      [] node.t = "array" ->
            IF node.kids # <<>> /\ depth + 1 > limit
            THEN Str(StringOf(node, root, {}))
            ELSE Arr(0, [i \in DOMAIN node.kids |->
                            FormatResult(Resolve(node.kids[i], root), root, depth + 1, limit)])
      [] node.t = "object" -> Stringify(node, {}, root).val
      [] OTHER -> FormatPrimitive(node)

\* frames left when formatResult is entered, far more than any acyclic
\* value in use needs
StackLimits == {4, 5}

\* values a command function returns
Primitives == {Null, Str("s")}
Composite(parts) ==
    UNION {{Arr(0, kids), Obj(0, kids)} : kids \in UNION {[1..k -> parts] : k \in 0..MaxItems}}
\* arrays and objects of one or two parts
Nested(parts) ==
    UNION {{Arr(0, kids), Obj(0, kids)} : kids \in [1..1 -> parts] \cup [1..2 -> parts]}
TreeValues ==
    Primitives \cup Composite(Primitives) \cup Nested(Primitives \cup Composite(Primitives))
\* {p: a, q: a}, [a, a], {p: [a], q: a}, {p: l, q: l} with l an array
SharedValues ==
    {Obj(0, <<Obj(1, <<Str("s")>>), Ref(1)>>),
     Arr(0, <<Obj(1, <<Str("s")>>), Ref(1)>>),
     Obj(0, <<Arr(0, <<Obj(1, <<>>)>>), Ref(1)>>),
     Obj(0, <<Arr(1, <<Null>>), Ref(1)>>)}
\* o = {self: o}, o = {l: [o]}, a = [{p: a}], a = [a], a = [[a]], a = [s, a]
CyclicValues ==
    {Obj(1, <<Ref(1)>>),
     Obj(1, <<Arr(0, <<Ref(1)>>)>>),
     Arr(1, <<Obj(2, <<Ref(1)>>)>>),
     Arr(1, <<Ref(1)>>),
     Arr(1, <<Arr(0, <<Ref(1)>>)>>),
     Arr(1, <<Str("s"), Ref(1)>>)}
SpecialValues ==
    {Undefined, Num("1"), Node("function", "f", 0, <<>>), Node("function", "", 0, <<>>),
     Node("error", "boom", 0, <<>>), Node("element", "DIV", 0, <<>>),
     Node("promise", "", 0, <<Undefined>>), CircularReference}
ReturnValues == TreeValues \cup SharedValues \cup CyclicValues \cup SpecialValues

\* executeCommand resolves with the command function's return value
CommandReturns(v) ==
    /\ result = <<>>
    /\ result' = <<v>>
    /\ UNCHANGED <<formatted, reformatted, parserVars, lifeVars, mainVars, moreVars, coreVars>>

\* handleAction: return this.formatResult(result)
FormatValue(limit) ==
    /\ result # <<>>
    /\ formatted = <<>>
    /\ formatted' = <<FormatResult(result[1], result[1], 0, limit)>>
    /\ UNCHANGED <<result, reformatted, parserVars, lifeVars, mainVars, moreVars, coreVars>>

\* formatResult applied to a value it returned
FormatAgain(limit) ==
    /\ formatted # <<>>
    /\ reformatted = <<>>
    /\ reformatted' = <<FormatResult(formatted[1], formatted[1], 0, limit)>>
    /\ UNCHANGED <<result, formatted, parserVars, lifeVars, mainVars, moreVars, coreVars>>

FormatterNext ==
    \/ result = <<>> /\ \E v \in ReturnValues : CommandReturns(v)
    \/ \E limit \in StackLimits : FormatValue(limit)
    \/ \E limit \in StackLimits : FormatAgain(limit)

FormatterSpec == Init /\ [][FormatterNext]_vars

(***************************************************************************)
(* Connection Manager properties                                           *)
(***************************************************************************)
\* a handler of this step called connect()
ConnectCalled == lastOp' \in {"toggleConnect", "reconnect"}

\* C4: connect() invoked while the manager is connecting or connected is a
\* no-op: it creates no socket and broadcasts no state change.
ConnectIdempotent ==
    [][ConnectCalled /\ (isConnecting \/ connectionState \in {"connecting", "connected"})
         => UNCHANGED <<ws, sock, isConnecting, connectionState, lastDelivered, prevDelivered>>]_vars

\* C5: the listener is never handed `connecting` twice in a row; whatever
\* follows a delivered `connecting` is `connected` or `disconnected`.
NoConnectingTwice ==
    /\ ~(prevDelivered = "connecting" /\ lastDelivered = "connecting")
    /\ lastDelivered = "connecting" => prevDelivered \in {"none", "connected", "disconnected"}

\* a reconnect attempt announced to the listener after a transport failure
ReconnectAnnounced ==
    /\ lastOp = "reconnect"
    /\ prevDelivered = "disconnected"
    /\ lastDelivered = "connecting"

\* C6: a transport error or close leaves the manager disconnected with exactly
\* one reconnect timer pending; never is more than one timer pending, also
\* after the error event and the close event of one socket.
OneReconnectScheduled ==
    /\ timers <= 1
    /\ reconnectTimer <=> timers = 1
    /\ lastOp \in {"onerror", "onclose"} =>
          /\ connectionState = "disconnected"
          /\ ws = 0
          /\ ~isConnecting
          /\ timers = 1

\* the close event handled right after the error event of the same socket
ErrorThenCloseHandled ==
    /\ lastOp = "onclose"
    /\ prevDelivered = "disconnected"
    /\ lastDelivered = "disconnected"
    /\ timers = 1

\* C7: once the manager is closed, the socket is released, no reconnect timer
\* is pending and no connection attempt is made until connect() is called.
ClosedStaysClosed ==
    closed =>
        /\ ws = 0
        /\ ~reconnectTimer
        /\ timers = 0
        /\ lastOp # "reconnect"
        /\ \A s \in Sockets : sock[s] # "connecting"

\* C8: sendMessage returns true exactly when it transmitted the message on
\* the open socket; a false return changes nothing of the manager, and
\* nothing reaches a socket except the message of a successful call.
SendContract ==
    [][/\ lastSend'.msg # NoMessage =>
            (lastSend'.ret <=>
                /\ ws # 0
                /\ sock'[ws] = "open"
                /\ wire' = Append(wire, lastSend'.msg))
       /\ lastOp' = "sendMessage" /\ ~lastSend'.ret =>
            UNCHANGED <<ws, sock, wire, isConnecting, connectionState,
                        reconnectTimer, timers, lastDelivered>>
       /\ wire' # wire =>
            \/ wire' = <<>> /\ ws' # ws
            \/ lastSend'.ret /\ ws' = ws /\ wire' = Append(wire, lastSend'.msg)]_vars

\* a command result handed to sendMessage while the socket is down: dropped
ResultLostWhileDown ==
    /\ lastOp = "sendMessage"
    /\ lastSend = [msg |-> [type |-> "SCRIPT_RESULT", id |-> 1, error |-> "none"], ret |-> FALSE]
    /\ connectionState = "disconnected"
    /\ wire = <<>>

\* C9: the handshake is the first message on every socket, and every
\* transition to connected transmits it.
HandshakeFirst ==
    /\ wire # <<>> => wire[1] = Handshake
    /\ lastOp = "onopen" => lastSend = [msg |-> Handshake, ret |-> TRUE]

\* C10: after a transport failure that nobody attends to, the manager is
\* connected again once the transport is available for good.
ReconnectsUnattended ==
    [](quiet /\ lastOp \in {"onerror", "onclose"} /\ <>stable
         => <>(connectionState = "connected"))

\* an unattended reconnect attempt made while the transport is available
UnattendedAttempt ==
    /\ quiet
    /\ stable
    /\ lastOp = "reconnect"
    /\ prevDelivered = "disconnected"
    /\ lastDelivered = "connecting"

(***************************************************************************)
(* Dispatcher properties                                                   *)
(***************************************************************************)
\* C1: for every command the controller-facing socket is handed at most one
\* SCRIPT_RESULT or SCRIPT_ERROR, whatever commands were dispatched to the
\* tab before and whenever the command's execution settles.
AtMostOneResult == \A c \in Cmds : handed[c] <= 1

\* C2: every command accepted by handleAction eventually produces its
\* result, unless the page context is destroyed first.
EventuallyResult ==
    \A c \in Cmds, h \in Handlers :
        [](inst[c][h] \in Pending => <>(inst[c][h] \in Produced \cup {"dead"}))

\* a command whose execution never settled got its result from the timer
ResultFromTimeout ==
    \E c \in Cmds, h \in Handlers :
        /\ inst[c][h] = "timedout"
        /\ c \notin activeRequests[h]
        /\ Emit("SCRIPT_ERROR", c, CommandTimeout, c, h) \in outbox

\* C3: a command that timed out has no PendingRequest left, and with its late
\* result discarded the controller observes no second result for it.
TimedOutOnce ==
    \A c \in Cmds, h \in Handlers :
        inst[c][h] \in {"timedout", "late"} =>
            /\ c \notin activeRequests[h]
            /\ handed[c] <= 1

(***************************************************************************)
(* Tab Router properties                                                   *)
(***************************************************************************)
\* C11: a command that arrives while no active tab is known fails at once
\* with the 'No active tab found' error carrying its command_id; nothing is
\* injected, nothing is relayed, and it stays failed.
NoTabFailsFast ==
    [][\A c \in Cmds :
         /\ cmd[c].pc = "idle" /\ cmd'[c].pc # "idle" /\ isEnabled /\ activeTabId = 0 =>
               /\ cmd'[c].pc = "failed"
               /\ lastSend' = [msg |-> ScriptError(c, NoActiveTab), ret |-> TRUE]
               /\ UNCHANGED <<pageVars, inst, activeRequests, outbox>>
         /\ cmd[c].pc = "failed" => cmd'[c].pc = "failed"]_vars

\* the error for a command that found no active tab was just transmitted
NoTabReported ==
    \E c \in Cmds :
        /\ activeTabId = 0
        /\ cmd[c].pc = "failed"
        /\ lastSend = [msg |-> ScriptError(c, NoActiveTab), ret |-> TRUE]
        /\ handed[c] = 1

\* C12: when the injection was skipped because the tab shows a chrome:// page,
\* the command is not relayed to the page: it fails with an error result.
SkippedInjectionFails ==
    [][\A c \in Cmds :
         cmd[c].pc = "injecting" /\ cmd'[c].pc # "injecting" /\ docState = "internal" =>
               /\ cmd'[c].pc = "failed"
               /\ lastSend'.msg.type = "SCRIPT_ERROR"
               /\ lastSend'.msg.id = c]_vars

\* C13: whatever was injected, the page context holds at most one dispatcher
\* with one listener, and a command is run by one handleAction call.
OneDispatcher ==
    /\ handlers + pendingInit <= 1
    /\ \A c \in Cmds : Cardinality({h \in Handlers : inst[c][h] # "none"}) <= 1

\* C14: the promise of executeCommand settles although the page never answers.
RouterSettles ==
    \A c \in Cmds :
        [](cmd[c].pc \in {"injecting", "relaying"} =>
              <>(cmd[c].pc \in {"failed", "delivered"}))

(***************************************************************************)
(* Dispatcher properties, continued                                        *)
(***************************************************************************)
\* scripts whose name is a registered command up to letter case
NamedRegistered == {<<"getTitle">>, <<"GETTITLE">>, <<"navigate", "url">>, <<"navigate">>,
                    <<"back">>}

\* C15: a command is rejected as unknown exactly when its name matches no
\* registered command ignoring case, and then no PendingRequest is stored,
\* no executor runs and no timer is armed.
UnknownShortCircuits ==
    \A c \in Cmds, h \in Handlers :
        inst[c][h] # "none" =>
            /\ inst[c][h] = "rejected" <=> cmd[c].script \notin NamedRegistered
            /\ inst[c][h] = "rejected" =>
                  /\ c \notin activeRequests[h]
                  /\ Emit("SCRIPT_ERROR", c, UnknownCommand, c, h) \in outbox
                  /\ ~ENABLED TimeoutFires(c, h)
                  /\ ~ENABLED NavTimeoutFires(c, h)
                  /\ ~ENABLED ExecSettles(c, h, TRUE)

\* a name in other letter case is running while an unknown name was rejected
CaseVariantRuns ==
    \E c, d \in Cmds, h \in Handlers :
        /\ cmd[c].script = <<"GETTITLE">>
        /\ inst[c][h] = "racing"
        /\ cmd[d].script = <<"bogus">>
        /\ inst[d][h] = "rejected"

\* C16: every SCRIPT_RESULT / SCRIPT_ERROR transmitted to the controller
\* carries the command_id of a command.
ResultsCarryCommandId ==
    \A i \in 1..Len(wire) :
        wire[i].type \in {"SCRIPT_RESULT", "SCRIPT_ERROR"} => wire[i].id \in Cmds

\* C17: navigate with a URL emits its acknowledgement while the navigation
\* is still to come, and the navigation wait settles without emitting a
\* further result.
NavigateAnswersOnce ==
    [][\A c \in Cmds, h \in Handlers :
         cmd[c].script # <<>> /\ NavigatesWithUrl(cmd[c].script) =>
            /\ inst[c][h] = "none" /\ inst'[c][h] = "navwait" =>
                  /\ Emit("SCRIPT_RESULT", 0, "none", c, h) \in outbox'
                  /\ navPending'
                  /\ docState' = docState
            /\ inst[c][h] = "navwait" /\ inst'[c][h] \in {"navdone", "navtimedout"} =>
                  outbox' = outbox]_vars

\* the commands the navigation path is meant for
NavigationFamily == {"navigate", "back", "forward", "refresh"}

\* C18: a command of the navigation family is handled by the navigation
\* path: it waits for the load event or the navigation timer.
FamilyTakesNavigationPath ==
    \A c \in Cmds, h \in Handlers :
        /\ inst[c][h] # "none"
        /\ ActualCommand(cmd[c].script[1]) \cap NavigationFamily # {}
        => inst[c][h] \in {"navwait", "navdone", "navtimedout", "dead"}

\* C19: when navigate's executor fails for want of a URL, the error result
\* of the command is that failure.
ExecutorFailureReported ==
    \A m \in outbox :
        LET script == cmd[m.from[1]].script
        IN  KindOf(script) = "navigate" /\ ~NavigatesWithUrl(script) =>
                m.error = UrlRequired

\* C20: a timeout is emitted as an error result, and a command in flight
\* holds up no other command: delivery and settling stay possible.
TimeoutDoesNotBlock ==
    /\ \A c \in Cmds, h \in Handlers :
          inst[c][h] = "timedout" =>
              Emit("SCRIPT_ERROR", c, CommandTimeout, c, h) \in outbox
    /\ \A d \in Cmds :
          cmd[d].pc = "relaying" /\ handlers > 0 => ENABLED DeliverToPage(d)
    /\ \A d \in Cmds, h \in Handlers :
          inst[d][h] = "racing" => ENABLED ExecSettles(d, h, TRUE)

\* the second command completed while the first is still running, and
\* another one completed after the first had timed out
SecondCompletesFirst ==
    \E h \in Handlers :
        /\ inst[1][h] \in {"racing", "timedout"}
        /\ inst[2][h] = "done"
        /\ 2 \notin activeRequests[h]

(***************************************************************************)
(* Single socket ownership                                                 *)
(***************************************************************************)
\* WebSocket objects with the manager's handlers that are connecting or open
LiveSockets == {s \in Sockets : sock[s] \in {"connecting", "open"}}

\* C21: the manager owns a single socket: at most one WebSocket with
\* installed handlers is connecting or open at any time, whatever sequence
\* of connect, toggle, reconnect, close and transport events occurred.
SingleLiveSocket == Cardinality(LiveSockets) <= 1

(***************************************************************************)
(* Command Parser properties                                               *)
(***************************************************************************)
\* the raw remainder of the wire string after the first `|`, as its segments
Remainder(script) == Tail(script)

\* C22: a send_keys wire string with exactly two positional segments parses
\* to {send_keys, {selector: first, value: second}}; with any other number
\* of positional segments the string is rejected.
SendKeysTakesExactlyTwo ==
    parsed # <<>> /\ StandardCommand(Trim(raw[1])) = "send_keys" =>
        IF Len(Remainder(raw)) = 2
        THEN parsed[1] = [command |-> "send_keys", error |-> "none",
                          params |-> [EmptyParams EXCEPT !.selector = raw[2], !.value = raw[3]]]
        ELSE parsed[1].error # "none"

\* C23: when segments follow the name and the remainder is a JSON value,
\* that value is the params, for every command name; the positional mapping
\* is used only when the remainder is not JSON.
JsonBeforePositional ==
    parsed # <<>> /\ Len(Remainder(raw)) = 1 /\ JsonParse(raw[2]).ok =>
        parsed[1].error = "none" /\ parsed[1].params = JsonParse(raw[2]).val

\* C24: navigate's url is the whole raw remainder after the first `|`,
\* further `|` included, and the background shortcut uses the same URL.
NavigateTakesRemainder ==
    parsed # <<>> /\ raw[1] = "navigate" /\ Len(raw) > 1 =>
        /\ <<parsed[1].params.url>> = Remainder(raw)
        /\ ShortcutUrl(raw) = parsed[1].params.url

\* C25: two wire strings that differ only in the letter case of the name
\* parse to the same {name, params} and take the same path at dispatch.
NamesIgnoreCase ==
    parsed # <<>> =>
        \A other \in WireScripts :
            LowerCased(other[1]) = LowerCased(raw[1]) /\ Remainder(other) = Remainder(raw) =>
                /\ ParseCommand(other) = parsed[1]
                /\ KindOf(other) = KindOf(raw)
                /\ NavigatesWithUrl(other) = NavigatesWithUrl(raw)

(***************************************************************************)
(* Result Formatter properties                                             *)
(***************************************************************************)
\* null, numbers, strings, arrays and plain objects of these; a part may be
\* referenced twice but nothing reaches itself
RECURSIVE JsonSafeUnder(_, _)
JsonSafeUnder(node, ancestors) ==
    CASE node.t \in {"null", "number", "string"} -> TRUE
      [] node.t = "ref" -> node.id \notin ancestors
      [] node.t \in {"array", "object"} ->
            \A i \in DOMAIN node.kids :
                JsonSafeUnder(node.kids[i],
                              IF node.id # 0 THEN ancestors \cup {node.id} ELSE ancestors)
      [] OTHER -> FALSE
JsonSafe(v) == JsonSafeUnder(v, {})

\* the marker occurs in a formatted value
RECURSIVE ContainsMarker(_)
ContainsMarker(node) ==
    \/ node = CircularReference
    \/ \E i \in DOMAIN node.kids : ContainsMarker(node.kids[i])

\* C26: the formatter is idempotent on JSON-safe input: formatting a
\* formatted value gives that value again.
FormatIdempotent ==
    reformatted # <<>> /\ JsonSafe(result[1]) => reformatted[1] = formatted[1]

\* a JSON-safe value with a shared part was formatted twice, the first pass
\* having changed it
SharedFormattedTwice ==
    /\ reformatted # <<>>
    /\ result[1] \in SharedValues
    /\ ContainsMarker(formatted[1])

\* C27: a self-referential object or array is formatted to a value that
\* contains the marker [Circular Reference].
CyclesGetMarker ==
    formatted # <<>> /\ result[1] \in CyclicValues => ContainsMarker(formatted[1])

(***************************************************************************)
(* Background Orchestrator properties                                      *)
(***************************************************************************)
\* C28: the enabled flag survives restarts: initialization restores the
\* value the last toggle wrote (false on a fresh install, where nothing is
\* stored), the stored value changes only through a toggle's write or the
\* install reset, and initialization starts a connection only if the
\* restored flag is true.
FlagSurvivesRestart ==
    [][/\ (~initialized /\ initialized') =>
            /\ isEnabled' = (stored = "true")
            /\ lastToggle # "none" => isEnabled' = (lastToggle = "on")
            /\ (ws' # 0) = isEnabled'
       /\ (stored' # stored) =>
            \/ togglePending # "none" /\ stored' = (IF togglePending = "on" THEN "true" ELSE "false")
            \/ stored = "unset" /\ stored' = "false"]_vars

\* after a restart the worker restored the flag a toggle had set and
\* started the connection
RestoredAfterRestart ==
    /\ restarted
    /\ lastToggle = "on"
    /\ lastOp = "initialize"
    /\ isEnabled
    /\ connectionState = "connecting"

StatusCheckConnectsWhenIdle ==
    [][lastOp' = "statusCheckConnect" =>
          /\ ws = 0 \/ sock[ws] # "open"
          /\ ~reconnectTimer
          /\ ~isConnecting]_vars
\* C31: a command is relayed to the tab that was injected for it: when the
\* active tab changes during the injection, the command does not go to a
\* tab that was not injected for this command
RelayedToInjectedTab ==
    routed.pc = "relayed" => routed.relayed = routed.injected

\* C36: the router's target is the tab of the activation or active-tab
\* load-complete event handled last; the answer of the initial query never
\* replaces a target that such an event has set
TargetFollowsLastEvent ==
    lastEvent # 0 => activeTabId = lastEvent

\* C32: when the wait of a navigate command has settled, by the load event
\* or by the 30 s timeout, its load listener is no longer registered and its
\* timer is no longer pending
NavigationWaitCleansUp ==
    \A c \in Cmds : flight[c].pc \in {"navdone", "navtimedout"}
                        => ~flight[c].listener /\ ~flight[c].timer

\* C33: every entry set in activeRequests at dispatch is removed in the end,
\* and at the step that settles a command the map holds no entry under the
\* command's requestId
EntriesEventuallyRemoved ==
    /\ \A id \in RequestIds : (requestMap[id] # 0) ~> (requestMap[id] = 0)
    /\ [][\A c \in Cmds : flight[c].pc \in Pending /\ flight'[c].pc \notin Pending
                              => requestMap'[flight[c].id] = 0]_vars

EntryRemovedOnSettlement ==
    \E c \in Cmds : /\ flight[c].pc \in {"done", "timedout", "navdone", "navtimedout"}
                    /\ requestMap[flight[c].id] = 0

\* C34: right after the page unloads and right after the connection drops
\* activeRequests is empty
ClearedAfterUnloadOrDrop ==
    lastPageEvent \in {"unload", "drop"} => \A id \in RequestIds : requestMap[id] = 0

\* C38: activeRequests has as many entries as there are commands in flight,
\* also when commands share a command_id or the timestamp fallback
EntriesMatchInFlight ==
    Cardinality({id \in RequestIds : requestMap[id] # 0})
        = Cardinality({c \in Cmds : flight[c].pc \in Pending})

\* C35: while connectionState is connected, this.ws is set and is the open
\* socket, also after the close or error event of a replaced socket
ConnectedHasOpenSocket ==
    connectionState = "connected" => ws # 0 /\ sock[ws] = "open"

\* C37: an automation_command received while isEnabled is false is dropped:
\* nothing is sent for it, and it is never injected or relayed afterwards,
\* so every relayed command was received while isEnabled was true
DisabledCommandsIgnored ==
    /\ [][\A c \in Cmds : cmd[c].pc = "idle" /\ cmd'[c].pc # "idle" /\ ~isEnabled
                              => cmd'[c].pc = "ignored" /\ lastSend' = NoSend]_vars
    /\ [][\A c \in Cmds : cmd[c].pc = "ignored"
                              => cmd'[c].pc = "ignored" /\ inst'[c] = inst[c]]_vars

IgnoredBesideRelayed ==
    \E c, d \in Cmds : cmd[c].pc = "ignored" /\ cmd[d].pc = "delivered"

\* C39: a success result for click_element is emitted only after the click
\* was made on the element
SuccessAfterClick ==
    \A c \in Cmds : clicks[c].emitted = "success" => clicks[c].clicked # "none"

\* the names a list of cookies holds
NamesOf(entries) == {entries[i].name : i \in 1..Len(entries)}

\* C40: the cookie list is the merge by name of the privileged cookies and
\* the document's cookies: every name of either source once, the privileged
\* entry where both have the name, and the document's cookies also when the
\* privileged source answers nothing or an error
MergedByName ==
    cookieOut # <<>> =>
        LET out == cookieOut[1]
            api == cookieIn[1].response.cookies
            doc == cookieIn[1].document
        IN  /\ NamesOf(out) = NamesOf(api) \cup NamesOf(doc)
            /\ \A i, j \in 1..Len(out) : out[i].name = out[j].name => i = j
            /\ \A i \in 1..Len(out) :
                   out[i].from = IF out[i].name \in NamesOf(api) THEN "api" ELSE "document"

=============================================================================
